---- MODULE Spec2Model ----
(***************************************************************************)
(* Model of the diff core of danger/golang (package dangerJs):             *)
(*   validateFilePath, validateGitRef, DiffForFile, DiffForFileWithRefs,   *)
(*   parseHunkHeader, parseAddedLine, parseRemovedLine, parseDiffContent.  *)
(*                                                                         *)
(* A Go string is modelled as a sequence of characters; a character is a   *)
(* one-character TLA+ string, except the two characters a TLA+ string      *)
(* cannot hold: DEL (code point 127), written "DEL", and the backquote     *)
(* (code point 96), written "BACKTICK".                                    *)
(***************************************************************************)
EXTENDS Integers, Sequences, FiniteSets, TLC

\* ------------------------------------------------------------------------
\* Bounds of the model
\* ------------------------------------------------------------------------

\* longest diff text, in lines, handed to parseDiffContent
MaxLines == 3

\* longest string over the full alphabet handed to the validators
MaxStrLen == 2

\* longest string over the path alphabet handed to the validators
MaxPathLen == 7

\* ------------------------------------------------------------------------
\* Characters and the string functions of the Go library the code calls
\* ------------------------------------------------------------------------

\* the printable ASCII characters, code points 32 .. 126, in order
Printable ==
  << " ", "!", "\"", "#", "$", "%", "&", "'", "(", ")", "*", "+", ",", "-",
     ".", "/", "0", "1", "2", "3", "4", "5", "6", "7", "8", "9", ":", ";",
     "<", "=", ">", "?", "@", "A", "B", "C", "D", "E", "F", "G", "H", "I",
     "J", "K", "L", "M", "N", "O", "P", "Q", "R", "S", "T", "U", "V", "W",
     "X", "Y", "Z", "[", "\\", "]", "^", "_", "BACKTICK", "a", "b", "c", "d", "e",
     "f", "g", "h", "i", "j", "k", "l", "m", "n", "o", "p", "q", "r", "s",
     "t", "u", "v", "w", "x", "y", "z", "{", "|", "}", "~" >>

\* the code point of a character (the rune value r of a range loop)
Code(c) ==
  CASE c = "\t" -> 9
    [] c = "\n" -> 10
    [] c = "\f" -> 12
    [] c = "\r" -> 13
    [] c = "DEL" -> 127
    [] OTHER -> 31 + (CHOOSE k \in 1..Len(Printable) : Printable[k] = c)

\* the element of a one-element set.  Only({ F(x) : x \in { e } }) is F(e)
\* with e evaluated once, where an operator would evaluate its argument at
\* every use.
Only(S) == CHOOSE x \in S : TRUE

\* strings.HasPrefix(s, prefix)
HasPrefix(s, prefix) ==
  /\ Len(s) >= Len(prefix)
  /\ SubSeq(s, 1, Len(prefix)) = prefix

\* strings.HasSuffix(s, suffix)
HasSuffix(s, suffix) ==
  /\ Len(s) >= Len(suffix)
  /\ SubSeq(s, Len(s) - Len(suffix) + 1, Len(s)) = suffix

\* strings.Contains(s, substr)
Contains(s, substr) ==
  \E p \in 1..(Len(s) - Len(substr) + 1) :
    SubSeq(s, p, p + Len(substr) - 1) = substr

\* the position of the first occurrence of character c in s at or after p,
\* Len(s) + 1 when there is none
RECURSIVE IndexFrom(_, _, _)
IndexFrom(s, p, c) ==
  IF p > Len(s) THEN Len(s) + 1
  ELSE IF s[p] = c THEN p
  ELSE IndexFrom(s, p + 1, c)

\* the position of the k-th occurrence of character c in s; 0 for k = 0 and
\* Len(s) + 1 when there are fewer than k
NthIndex(s, c, k) ==
  IF k = 0 THEN 0
  ELSE IF Cardinality({ q \in 1..Len(s) : s[q] = c }) < k THEN Len(s) + 1
  ELSE CHOOSE p \in 1..Len(s) :
         /\ s[p] = c
         /\ Cardinality({ q \in 1..(p - 1) : s[q] = c }) = k - 1

\* strings.Split(s, sep) for a one-character separator: the pieces between
\* the separators, in order; n separators give n + 1 pieces, and the empty
\* string gives one empty piece
Split(s, sep) ==
  [ k \in 1..(Cardinality({ q \in 1..Len(s) : s[q] = sep }) + 1) |->
      SubSeq(s, NthIndex(s, sep, k - 1) + 1, NthIndex(s, sep, k) - 1) ]

\* strings.Join(elems, sep) for a one-character separator
RECURSIVE Join(_, _)
Join(elems, sep) ==
  IF elems = << >> THEN << >>
  ELSE IF Len(elems) = 1 THEN elems[1]
  ELSE elems[1] \o << sep >> \o Join(Tail(elems), sep)

\* ------------------------------------------------------------------------
\* strconv.Atoi on a string of decimal digits (64-bit int)
\* ------------------------------------------------------------------------

DigitChars == << "0", "1", "2", "3", "4", "5", "6", "7", "8", "9" >>

\* the regular expression class \d
Digit == { DigitChars[k] : k \in 1..Len(DigitChars) }

DigitVal(c) == (CHOOSE k \in 1..Len(DigitChars) : DigitChars[k] = c) - 1

\* the decimal digits of the largest int, 1<<63 - 1
MaxIntDigits ==
  << "9", "2", "2", "3", "3", "7", "2", "0", "3", "6", "8", "5", "4", "7",
     "7", "5", "8", "0", "7" >>

RECURSIVE StripZeros(_)
StripZeros(ds) ==
  IF ds # << >> /\ Head(ds) = "0" THEN StripZeros(Tail(ds)) ELSE ds

\* a <= b for two digit strings of the same length
RECURSIVE DigitsLeq(_, _)
DigitsLeq(a, b) ==
  IF a = << >> THEN TRUE
  ELSE IF DigitVal(Head(a)) < DigitVal(Head(b)) THEN TRUE
  ELSE IF DigitVal(Head(a)) > DigitVal(Head(b)) THEN FALSE
  ELSE DigitsLeq(Tail(a), Tail(b))

\* the number the first n digits of a digit string denote
RECURSIVE PrefixValue(_, _)
PrefixValue(ds, n) ==
  IF n = 0 THEN 0 ELSE PrefixValue(ds, n - 1) * 10 + DigitVal(ds[n])

\* the number a digit string denotes
DigitsValue(ds) == PrefixValue(ds, Len(ds))

\* strconv.Atoi(ds): the value, or a range error when it does not fit an int.
\* (The inputs of the model hold no value between 2^31 and 2^63.)
Atoi(ds) ==
  Only({ IF \/ Len(t) < Len(MaxIntDigits)
            \/ Len(t) = Len(MaxIntDigits) /\ DigitsLeq(t, MaxIntDigits)
         THEN [value |-> DigitsValue(t), err |-> FALSE]
         ELSE [value |-> 0, err |-> TRUE] :
         t \in { StripZeros(ds) } })

\* ------------------------------------------------------------------------
\* The compiled regular expressions
\* ------------------------------------------------------------------------

\* the regular expression class \s of Go's regexp: [\t\n\f\r ]
Space == { "\t", "\n", "\f", "\r", " " }

\* the position after the longest run of characters of class cls that
\* starts at position p of s
RECURSIVE SkipClass(_, _, _)
SkipClass(s, p, cls) ==
  IF p <= Len(s) /\ s[p] \in cls THEN SkipClass(s, p + 1, cls) ELSE p

\* Matching steps.  Each is a function on the positions of s: it takes the
\* position where the match so far ends (0: the match has failed) and gives
\* the position after its own match.
Positions(s) == 0..(Len(s) + 1)

\* a literal character c
MatchLit(s, c) ==
  [ p \in Positions(s) |->
      IF p > 0 /\ p <= Len(s) /\ s[p] = c THEN p + 1 ELSE 0 ]

\* cls+ : one or more characters of class cls
MatchPlus(s, cls) ==
  [ p \in Positions(s) |->
      IF p > 0 /\ SkipClass(s, p, cls) > p THEN SkipClass(s, p, cls) ELSE 0 ]

\* (?:,(\d+))? : the optional count
MatchCount(s) ==
  [ p \in Positions(s) |->
      IF p = 0 THEN 0
      ELSE IF MatchPlus(s, Digit)[MatchLit(s, ",")[p]] > 0
      THEN MatchPlus(s, Digit)[MatchLit(s, ",")[p]]
      ELSE p ]

\* the parts of  ^@@\s+-(\d+)(?:,(\d+))?\s+\+(\d+)(?:,(\d+))?\s+@@ :
\* part 1 is ^@@ , 2 is \s+- , 3 is (\d+) , 4 is the optional count,
\* 5 is \s+\+ , 6 is (\d+) , 7 is the optional count, 8 is \s+@@
hunkHeaderPart(line, part) ==
  CASE part = 1 ->
         [ p \in Positions(line) |->
             MatchLit(line, "@")[MatchLit(line, "@")[p]] ]
    [] part = 2 ->
         [ p \in Positions(line) |->
             MatchLit(line, "-")[MatchPlus(line, Space)[p]] ]
    [] part = 3 -> MatchPlus(line, Digit)
    [] part = 4 -> MatchCount(line)
    [] part = 5 ->
         [ p \in Positions(line) |->
             MatchLit(line, "+")[MatchPlus(line, Space)[p]] ]
    [] part = 6 -> MatchPlus(line, Digit)
    [] part = 7 -> MatchCount(line)
    [] part = 8 ->
         [ p \in Positions(line) |->
             MatchLit(line, "@")[MatchLit(line, "@")[
               MatchPlus(line, Space)[p]]] ]

\* the position where the match of the parts 1 .. part ends in line, from
\* the start of the line; 0 when they do not match
RECURSIVE hunkHeaderEnd(_, _)
hunkHeaderEnd(line, part) ==
  IF part = 0 THEN 1
  ELSE hunkHeaderPart(line, part)[hunkHeaderEnd(line, part - 1)]

\* hunkHeaderRe.FindStringSubmatch(line): matched: a match was found;
\* g1 .. g4: the four groups (the empty string for a count that is absent)
hunkHeaderRe(line) ==
  IF hunkHeaderEnd(line, 8) = 0
  THEN [matched |-> FALSE, g1 |-> << >>, g2 |-> << >>,
        g3 |-> << >>, g4 |-> << >>]
  ELSE [matched |-> TRUE,
        g1 |-> SubSeq(line, hunkHeaderEnd(line, 2),
                      hunkHeaderEnd(line, 3) - 1),
        g2 |-> SubSeq(line, hunkHeaderEnd(line, 3) + 1,
                      hunkHeaderEnd(line, 4) - 1),
        g3 |-> SubSeq(line, hunkHeaderEnd(line, 5),
                      hunkHeaderEnd(line, 6) - 1),
        g4 |-> SubSeq(line, hunkHeaderEnd(line, 6) + 1,
                      hunkHeaderEnd(line, 7) - 1)]

\* the text that  .*  matches from position p: the dot matches every character
\* but the line feed
DotStar(s, p) == SubSeq(s, p, IndexFrom(s, p, "\n") - 1)

\* FindStringSubmatch for  ^M([^M].*|$)  where M is the marker character:
\* addedLineRe is MarkerRe(line, "+"), removedLineRe is MarkerRe(line, "-")
MarkerRe(line, marker) ==
  IF Len(line) >= 1 /\ line[1] = marker
  THEN IF Len(line) >= 2 /\ line[2] # marker
       THEN [matched |-> TRUE, g1 |-> << line[2] >> \o DotStar(line, 3)]
       ELSE IF Len(line) = 1
       THEN [matched |-> TRUE, g1 |-> << >>]
       ELSE [matched |-> FALSE, g1 |-> << >>]
  ELSE [matched |-> FALSE, g1 |-> << >>]

\* mutant: ^\+(.*) , a second plus sign is not excluded
addedLineRe_AnyAfterMarker(line) ==
  IF Len(line) >= 1 /\ line[1] = "+"
  THEN [matched |-> TRUE, g1 |-> DotStar(line, 2)]
  ELSE [matched |-> FALSE, g1 |-> << >>]

\* mutant: ^\+([^+].*) , the alternative for the bare marker is missing
addedLineRe_NonEmptyOnly(line) ==
  IF Len(line) >= 2 /\ line[1] = "+" /\ line[2] # "+"
  THEN [matched |-> TRUE, g1 |-> << line[2] >> \o DotStar(line, 3)]
  ELSE [matched |-> FALSE, g1 |-> << >>]

addedLineRe(line) == MarkerRe(line, "+")

removedLineRe(line) == MarkerRe(line, "-")

\* ------------------------------------------------------------------------
\* The parsing functions
\* ------------------------------------------------------------------------

\* mutant: the error of the second conversion is not checked
parseHunkHeader_AddedErrIgnored(line) ==
  LET none == [removedStart |-> 0, addedStart |-> 0, isHunkHeader |-> FALSE]
  IN  Only({ IF matches.matched
             THEN Only({ IF removed.err THEN none
                         ELSE Only({ [removedStart |-> removed.value,
                                      addedStart |-> added.value,
                                      isHunkHeader |-> TRUE] :
                                     added \in { Atoi(matches.g3) } }) :
                         removed \in { Atoi(matches.g1) } })
             ELSE none :
             matches \in { hunkHeaderRe(line) } })

parseHunkHeader(line) ==
  LET none == [removedStart |-> 0, addedStart |-> 0, isHunkHeader |-> FALSE]
  IN  Only({ IF matches.matched
             THEN Only({ IF removed.err THEN none
                         ELSE Only({ IF added.err THEN none
                                     ELSE [removedStart |-> removed.value,
                                           addedStart |-> added.value,
                                           isHunkHeader |-> TRUE] :
                                     added \in { Atoi(matches.g3) } }) :
                         removed \in { Atoi(matches.g1) } })
             ELSE none :
             matches \in { hunkHeaderRe(line) } })

parseAddedLine(line) ==
  LET matches == addedLineRe(line)
  IN  IF matches.matched THEN [content |-> matches.g1, isAdded |-> TRUE]
      ELSE [content |-> << >>, isAdded |-> FALSE]

parseRemovedLine(line) ==
  LET matches == removedLineRe(line)
  IN  IF matches.matched THEN [content |-> matches.g1, isRemoved |-> TRUE]
      ELSE [content |-> << >>, isRemoved |-> FALSE]

\* ------------------------------------------------------------------------
\* The validators
\* ------------------------------------------------------------------------

\* mutant: the list lacks the backquote
shellMetaChars_NoBackquote ==
  << ";", "|", "&", "$", "(", ")", "{", "}", "[", "]", "*", "?",
     "<", ">", "'", "\"" >>

\* Shell metacharacters that could be used for command injection
shellMetaChars ==
  << ";", "|", "&", "$", "BACKTICK", "(", ")", "{", "}", "[", "]", "*", "?",
     "<", ">", "'", "\"" >>

\* Whitespace characters that should be rejected in git refs
whitespaceChars == << " ", "\t", "\n", "\r" >>

\* the elements of a path that filepath.Clean keeps, given the elements
\* still to read and the elements kept so far: empty and "." elements are
\* dropped, a ".." element removes the element before it, is kept when
\* there is none to remove and the path is not rooted, and is dropped at
\* the root
RECURSIVE CleanElements(_, _, _)
CleanElements(elems, kept, rooted) ==
  IF elems = << >> THEN kept
  ELSE LET e == Head(elems)
           rest == Tail(elems)
       IN  IF e = << >> \/ e = << "." >>
           THEN CleanElements(rest, kept, rooted)
           ELSE IF e = << ".", "." >>
           THEN IF kept # << >> /\ kept[Len(kept)] # << ".", "." >>
                THEN CleanElements(rest, SubSeq(kept, 1, Len(kept) - 1), rooted)
                ELSE IF ~ rooted
                THEN CleanElements(rest, Append(kept, e), rooted)
                ELSE CleanElements(rest, kept, rooted)
           ELSE CleanElements(rest, Append(kept, e), rooted)

\* filepath.Clean(path) with the separator "/": the shortest path name
\* equivalent to path by purely lexical processing
Clean(path) ==
  IF path = << >> THEN << "." >>
  ELSE LET rooted == path[1] = "/"
           kept == CleanElements(Split(path, "/"), << >>, rooted)
       IN  IF rooted THEN << "/" >> \o Join(kept, "/")
           ELSE IF kept = << >> THEN << "." >>
           ELSE Join(kept, "/")

\* filepath.IsAbs(path) with the separator "/"
IsAbs(path) == HasPrefix(path, << "/" >>)

validateFilePath(path) ==
  IF path = << >> THEN FALSE
  ELSE LET cleaned == Clean(path)
       IN  IF Contains(cleaned, << ".", "." >>) THEN FALSE
           ELSE IF IsAbs(cleaned) THEN FALSE
           ELSE IF \E k \in 1..Len(shellMetaChars) :
                     Contains(path, << shellMetaChars[k] >>) THEN FALSE
           ELSE IF \E k \in 1..Len(whitespaceChars) :
                     Contains(path, << whitespaceChars[k] >>) THEN FALSE
           ELSE TRUE

\* mutant: the loop over the runes of the ref is missing
validateGitRef_NoControlCheck(ref) ==
  IF ref = << >> THEN FALSE
  ELSE IF \E k \in 1..Len(shellMetaChars) :
            Contains(ref, << shellMetaChars[k] >>) THEN FALSE
  ELSE IF \E k \in 1..Len(whitespaceChars) :
            Contains(ref, << whitespaceChars[k] >>) THEN FALSE
  ELSE IF Contains(ref, << ".", "." >>) THEN FALSE
  ELSE IF \/ HasPrefix(ref, << "/" >>)
          \/ HasSuffix(ref, << "/" >>)
          \/ Contains(ref, << "/", "/" >>) THEN FALSE
  ELSE TRUE

\* mutant: a slash at the end of the ref is not checked
validateGitRef_NoSuffixCheck(ref) ==
  IF ref = << >> THEN FALSE
  ELSE IF \E k \in 1..Len(shellMetaChars) :
            Contains(ref, << shellMetaChars[k] >>) THEN FALSE
  ELSE IF \E k \in 1..Len(whitespaceChars) :
            Contains(ref, << whitespaceChars[k] >>) THEN FALSE
  ELSE IF Contains(ref, << ".", "." >>) THEN FALSE
  ELSE IF \/ HasPrefix(ref, << "/" >>)
          \/ Contains(ref, << "/", "/" >>) THEN FALSE
  ELSE IF \E k \in 1..Len(ref) : Code(ref[k]) < 32 \/ Code(ref[k]) = 127
       THEN FALSE
  ELSE TRUE

validateGitRef(ref) ==
  IF ref = << >> THEN FALSE
  ELSE IF \E k \in 1..Len(shellMetaChars) :
            Contains(ref, << shellMetaChars[k] >>) THEN FALSE
  ELSE IF \E k \in 1..Len(whitespaceChars) :
            Contains(ref, << whitespaceChars[k] >>) THEN FALSE
  ELSE IF Contains(ref, << ".", "." >>) THEN FALSE
  ELSE IF \/ HasPrefix(ref, << "/" >>)
          \/ HasSuffix(ref, << "/" >>)
          \/ Contains(ref, << "/", "/" >>) THEN FALSE
  ELSE IF \E k \in 1..Len(ref) : Code(ref[k]) < 32 \/ Code(ref[k]) = 127
       THEN FALSE
  ELSE TRUE

\* ------------------------------------------------------------------------
\* Inputs
\* ------------------------------------------------------------------------

\* a hunk header line  @@ -<removed> +<added> @@
Hunk(removed, added) ==
  << "@", "@", " ", "-" >> \o removed \o << " ", "+" >> \o added
    \o << " ", "@", "@" >>

\* the lines the diff texts are made of
DiffLineSet ==
  { Hunk(<< "1" >>, << "1" >>),                          \* @@ -1 +1 @@
    Hunk(<< "5", ",", "2" >>, << "7", ",", "3" >>),      \* @@ -5,2 +7,3 @@
    Hunk(<< "0", ",", "0" >>, << "1", ",", "2" >>),      \* @@ -0,0 +1,2 @@
    << "@", "@", " ", "i", "n", "v", "a", "l", "i", "d", " ", "@", "@" >>,
    Hunk(<< "9", "9", "9", "9", "9", "9", "9", "9", "9", "9",
            "9", "9", "9", "9", "9", "9", "9", "9", "9", "9" >>, << "1" >>),
    Hunk(<< "1" >>,
         << "9", "9", "9", "9", "9", "9", "9", "9", "9", "9",
            "9", "9", "9", "9", "9", "9", "9", "9", "9", "9" >>),
    << "+", "\t", "a", ";" >>,
    << "+" >>,
    << "-", " ", "b" >>,
    << "-" >>,
    << "+", "+", "+", " ", "b", "/", "x" >>,             \* +++ b/x
    << "-", "-", "-", " ", "a", "/", "x" >>,             \* --- a/x
    << " ", "c" >>,                                      \* a context line
    << >> }

\* the diff texts: up to MaxLines lines joined by line feeds
DiffTexts ==
  { Join(ls, "\n") :
      ls \in UNION { [1..n -> DiffLineSet] : n \in 0..MaxLines } }

\* the hunk of the test "complex diff with context lines", its lines cut
\* short: the hunk header, two context lines, a removed line, an added line
\* and a context line
ContextDiff ==
  Join(<< Hunk(<< "1", "0", ",", "5" >>, << "1", "0", ",", "6" >>),
          << " ", "c" >>,
          << " ", "c" >>,
          << "-", " ", "b" >>,
          << "+", "\t", "a", ";" >>,
          << " ", "c" >> >>, "\n")

\* one line of each kind the scan tells apart, and of each kind of line
\* that is like a hunk header and is none
ScanLineSet ==
  { Hunk(<< "1" >>, << "1" >>),
    << "@", "@", " ", "i", "n", "v", "a", "l", "i", "d", " ", "@", "@" >>,
    Hunk(<< "9", "9", "9", "9", "9", "9", "9", "9", "9", "9",
            "9", "9", "9", "9", "9", "9", "9", "9", "9", "9" >>, << "1" >>),
    << "+" >>,
    << "-", " ", "b" >>,
    << "+", "+", "+", " ", "b", "/", "x" >>,
    << " ", "c" >>,
    << >> }

\* the texts of up to MaxLines of these lines
ScanTexts ==
  { Join(ls, "\n") :
      ls \in UNION { [1..n -> ScanLineSet] : n \in 0..MaxLines } }

\* the texts the git subprocess prints
GitOutputs ==
  { << >>,
    Join(<< Hunk(<< "1" >>, << "1" >>), << "-", " ", "b" >>,
            << "+", "\t", "a", ";" >>, << >> >>, "\n"),
    Join(<< << "+", "+", "+", " ", "b", "/", "x" >>,
            Hunk(<< "5", ",", "2" >>, << "7", ",", "3" >>),
            << "+", "\t", "a", ";" >>, << "+" >> >>, "\n") }

\* the file paths handed to DiffForFile and DiffForFileWithRefs
PathInputs ==
  { << >>,
    << "a" >>,
    << "s", "r", "c", "/", "m", "a", "i", "n", ".", "g", "o" >>,
    << ".", ".", "/", "a" >>,
    << "/", "a" >>,
    << "a", ";", "b" >>,
    << "a", " ", "b" >> }

\* the default refs of DiffForFile
HeadParent == << "H", "E", "A", "D", "^" >>

HeadCommit == << "H", "E", "A", "D" >>

\* the refs handed to DiffForFileWithRefs
RefInputs ==
  { << >>,
    HeadCommit,
    HeadParent,
    << "m", "a", "i", "n", "/" >>,
    << "a", "|", "b" >>,
    << "a", ".", ".", "b" >> }

\* all strings over an alphabet, up to a length
StringsOver(alphabet, maxLen) ==
  UNION { [1..n -> alphabet] : n \in 0..maxLen }

\* the shell metacharacters, the whitespace characters, and ".", "/", a
\* letter, "^", a control character and DEL
FullAlphabet ==
  { ";", "|", "&", "$", "BACKTICK", "(", ")", "{", "}", "[", "]", "*", "?",
    "<", ">", "'", "\"" }
    \cup { " ", "\t", "\n", "\r" }
    \cup { ".", "/", "a", "^", "\f", "DEL" }

\* the characters path elements are made of, and one metacharacter
PathAlphabet == { ".", "/", "a", ";" }

\* refs as they are in use: a branch name with a slash and a hyphen, a
\* branch name with a slash at its end, and the default refs of DiffForFile
RefExamples ==
  { << "f", "e", "a", "t", "u", "r", "e", "/",
       "n", "e", "w", "-", "t", "h", "i", "n", "g" >>,
    << "m", "a", "i", "n", "/" >>,
    HeadParent,
    HeadCommit }

\* the strings handed to the validators
ValidatorInputs ==
  StringsOver(FullAlphabet, MaxStrLen)
    \cup StringsOver(PathAlphabet, MaxPathLen)
    \cup RefExamples

\* ------------------------------------------------------------------------
\* State
\* ------------------------------------------------------------------------

VARIABLES
  pc,                  \* the position of the call in the code
  entry,               \* the function the caller has called
  filePath,            \* DiffForFileWithRefs: the file path argument
  baseRef,             \* DiffForFileWithRefs: the base ref argument
  headRef,             \* DiffForFileWithRefs: the head ref argument
  spawned,             \* the git subprocess has been run
  err,                 \* the error DiffForFileWithRefs returns, "nil" for none
  diffContent,         \* parseDiffContent: the text to parse
  lines,               \* parseDiffContent: the lines of the text
  i,                   \* parseDiffContent: the index in lines of the next line
  currentRemovedLine,  \* parseDiffContent: the running counter of removed lines
  currentAddedLine,    \* parseDiffContent: the running counter of added lines
  fileDiff,            \* the FileDiff under construction / returned
  arg,                 \* the string handed to the validators
  pathOk,              \* validateFilePath(arg): "true", "false"; "unset" before
  refOk                \* validateGitRef(arg): "true", "false"; "unset" before

vars ==
  << pc, entry, filePath, baseRef, headRef, spawned, err, diffContent, lines,
     i, currentRemovedLine, currentAddedLine, fileDiff, arg, pathOk, refOk >>

invokeVars == << entry, filePath, baseRef, headRef, spawned, err >>

validateVars == << arg, pathOk, refOk >>

\* the zero value FileDiff{}
EmptyFileDiff == [AddedLines |-> << >>, RemovedLines |-> << >>]

\* the value of a running counter before any hunk header was found
NoHunkYet == -1

\* ------------------------------------------------------------------------
\* parseDiffContent
\* ------------------------------------------------------------------------

\* the entry of parseDiffContent: split the text, initialise the counters
ParseBegin ==
  /\ pc = "parseDiffContent"
  /\ lines' = Split(diffContent, "\n")
  /\ i' = 1
  /\ currentRemovedLine' = NoHunkYet
  /\ currentAddedLine' = NoHunkYet
  /\ fileDiff' = EmptyFileDiff
  /\ pc' = "loop"
  /\ UNCHANGED << diffContent, invokeVars, validateVars >>

\* the loop is at a line
AtLine == pc = "loop" /\ i <= Len(lines)

\* mutant: the two start values are assigned to the wrong counters
HunkHeaderLine_Swapped ==
  /\ AtLine
  /\ LET hunk == parseHunkHeader(lines[i])
     IN  /\ hunk.isHunkHeader
         /\ currentRemovedLine' = hunk.addedStart
         /\ currentAddedLine' = hunk.removedStart
  /\ i' = i + 1
  /\ UNCHANGED << pc, diffContent, lines, fileDiff, invokeVars, validateVars >>

\* one iteration of the loop, first branch: the line is a hunk header
HunkHeaderLine ==
  /\ AtLine
  /\ LET hunk == parseHunkHeader(lines[i])
     IN  /\ hunk.isHunkHeader
         /\ currentRemovedLine' = hunk.removedStart
         /\ currentAddedLine' = hunk.addedStart
  /\ i' = i + 1
  /\ UNCHANGED << pc, diffContent, lines, fileDiff, invokeVars, validateVars >>

\* mutant: an added line is recorded without the check of its counter
AddedLine_NoContextCheck ==
  /\ AtLine
  /\ ~ parseHunkHeader(lines[i]).isHunkHeader
  /\ LET added == parseAddedLine(lines[i])
     IN  /\ added.isAdded
         /\ fileDiff' =
              [fileDiff EXCEPT !.AddedLines =
                 Append(@, [Content |-> added.content,
                            Line |-> currentAddedLine])]
         /\ currentAddedLine' = currentAddedLine + 1
  /\ i' = i + 1
  /\ UNCHANGED << pc, diffContent, lines, currentRemovedLine, invokeVars,
                  validateVars >>

\* mutant: the counter is incremented before the line is recorded
AddedLine_IncrementFirst ==
  /\ AtLine
  /\ ~ parseHunkHeader(lines[i]).isHunkHeader
  /\ LET added == parseAddedLine(lines[i])
     IN  /\ added.isAdded
         /\ IF currentAddedLine >= 0
            THEN /\ fileDiff' =
                      [fileDiff EXCEPT !.AddedLines =
                         Append(@, [Content |-> added.content,
                                    Line |-> currentAddedLine + 1])]
                 /\ currentAddedLine' = currentAddedLine + 1
            ELSE UNCHANGED << fileDiff, currentAddedLine >>
  /\ i' = i + 1
  /\ UNCHANGED << pc, diffContent, lines, currentRemovedLine, invokeVars,
                  validateVars >>

\* one iteration of the loop, second branch: the line is an added line
AddedLine ==
  /\ AtLine
  /\ ~ parseHunkHeader(lines[i]).isHunkHeader
  /\ LET added == parseAddedLine(lines[i])
     IN  /\ added.isAdded
         /\ IF currentAddedLine >= 0
            THEN /\ fileDiff' =
                      [fileDiff EXCEPT !.AddedLines =
                         Append(@, [Content |-> added.content,
                                    Line |-> currentAddedLine])]
                 /\ currentAddedLine' = currentAddedLine + 1
            ELSE UNCHANGED << fileDiff, currentAddedLine >>
  /\ i' = i + 1
  /\ UNCHANGED << pc, diffContent, lines, currentRemovedLine, invokeVars,
                  validateVars >>

\* mutant: recording a removed line advances the counter of added lines
RemovedLine_AdvancesAdded ==
  /\ AtLine
  /\ ~ parseHunkHeader(lines[i]).isHunkHeader
  /\ ~ parseAddedLine(lines[i]).isAdded
  /\ LET removed == parseRemovedLine(lines[i])
     IN  /\ removed.isRemoved
         /\ IF currentRemovedLine >= 0
            THEN /\ fileDiff' =
                      [fileDiff EXCEPT !.RemovedLines =
                         Append(@, [Content |-> removed.content,
                                    Line |-> currentRemovedLine])]
                 /\ currentAddedLine' = currentAddedLine + 1
                 /\ UNCHANGED currentRemovedLine
            ELSE UNCHANGED << fileDiff, currentRemovedLine, currentAddedLine >>
  /\ i' = i + 1
  /\ UNCHANGED << pc, diffContent, lines, invokeVars, validateVars >>

\* one iteration of the loop, third branch: the line is a removed line
RemovedLine ==
  /\ AtLine
  /\ ~ parseHunkHeader(lines[i]).isHunkHeader
  /\ ~ parseAddedLine(lines[i]).isAdded
  /\ LET removed == parseRemovedLine(lines[i])
     IN  /\ removed.isRemoved
         /\ IF currentRemovedLine >= 0
            THEN /\ fileDiff' =
                      [fileDiff EXCEPT !.RemovedLines =
                         Append(@, [Content |-> removed.content,
                                    Line |-> currentRemovedLine])]
                 /\ currentRemovedLine' = currentRemovedLine + 1
            ELSE UNCHANGED << fileDiff, currentRemovedLine >>
  /\ i' = i + 1
  /\ UNCHANGED << pc, diffContent, lines, currentAddedLine, invokeVars,
                  validateVars >>

\* mutant: the scan does not advance past a line of no branch
OtherLine_Stuck ==
  /\ AtLine
  /\ ~ parseHunkHeader(lines[i]).isHunkHeader
  /\ ~ parseAddedLine(lines[i]).isAdded
  /\ ~ parseRemovedLine(lines[i]).isRemoved
  /\ i' = i
  /\ UNCHANGED << pc, diffContent, lines, currentRemovedLine,
                  currentAddedLine, fileDiff, invokeVars, validateVars >>

\* mutant: a context line advances both counters
OtherLine_ContextCounted ==
  /\ AtLine
  /\ ~ parseHunkHeader(lines[i]).isHunkHeader
  /\ ~ parseAddedLine(lines[i]).isAdded
  /\ ~ parseRemovedLine(lines[i]).isRemoved
  /\ IF HasPrefix(lines[i], << " " >>) /\ currentAddedLine >= 0
     THEN /\ currentRemovedLine' = currentRemovedLine + 1
          /\ currentAddedLine' = currentAddedLine + 1
     ELSE UNCHANGED << currentRemovedLine, currentAddedLine >>
  /\ i' = i + 1
  /\ UNCHANGED << pc, diffContent, lines, fileDiff, invokeVars, validateVars >>

\* mutant: a header-like line of no branch takes the hunk context away
OtherLine_ResetsContext ==
  /\ AtLine
  /\ ~ parseHunkHeader(lines[i]).isHunkHeader
  /\ ~ parseAddedLine(lines[i]).isAdded
  /\ ~ parseRemovedLine(lines[i]).isRemoved
  /\ IF HasPrefix(lines[i], << "@", "@" >>)
     THEN /\ currentRemovedLine' = NoHunkYet
          /\ currentAddedLine' = NoHunkYet
     ELSE UNCHANGED << currentRemovedLine, currentAddedLine >>
  /\ i' = i + 1
  /\ UNCHANGED << pc, diffContent, lines, fileDiff, invokeVars, validateVars >>

\* one iteration of the loop, no branch taken: any other line
OtherLine ==
  /\ AtLine
  /\ ~ parseHunkHeader(lines[i]).isHunkHeader
  /\ ~ parseAddedLine(lines[i]).isAdded
  /\ ~ parseRemovedLine(lines[i]).isRemoved
  /\ i' = i + 1
  /\ UNCHANGED << pc, diffContent, lines, currentRemovedLine,
                  currentAddedLine, fileDiff, invokeVars, validateVars >>

\* the loop is over: return fileDiff
ParseReturn ==
  /\ pc = "loop"
  /\ i > Len(lines)
  /\ pc' = "done"
  /\ UNCHANGED << diffContent, lines, i, currentRemovedLine,
                  currentAddedLine, fileDiff, invokeVars, validateVars >>

\* the state of the variables no call of parseDiffContent has set yet
ParseEntry ==
  /\ pc = "parseDiffContent"
  /\ entry = "parseDiffContent"
  /\ lines = << >>
  /\ i = 0
  /\ currentRemovedLine = NoHunkYet
  /\ currentAddedLine = NoHunkYet
  /\ fileDiff = EmptyFileDiff
  /\ filePath = << >>
  /\ baseRef = << >>
  /\ headRef = << >>
  /\ spawned = FALSE
  /\ err = "nil"
  /\ arg = << >>
  /\ pathOk = "unset"
  /\ refOk = "unset"

\* a call parseDiffContent(diffContent) with any of the diff texts, or with
\* the text of the test with context lines
Init == ParseEntry /\ diffContent \in DiffTexts \cup { ContextDiff }

Next ==
  \/ ParseBegin
  \/ HunkHeaderLine
  \/ AddedLine
  \/ RemovedLine
  \/ OtherLine
  \/ ParseReturn

Spec == Init /\ [][Next]_vars

\* a call parseDiffContent(diffContent) with any text of lines of each kind
InitScan == ParseEntry /\ diffContent \in ScanTexts

\* the scan is sequential code: an enabled step is eventually taken
FairSpec == InitScan /\ [][Next]_vars /\ WF_vars(Next)

\* ------------------------------------------------------------------------
\* DiffForFile and DiffForFileWithRefs
\* ------------------------------------------------------------------------

parseVars ==
  << diffContent, lines, i, currentRemovedLine, currentAddedLine >>

\* mutant: the default refs are passed in the wrong order
DiffForFile_RefsSwapped ==
  /\ pc = "DiffForFile"
  /\ baseRef' = HeadCommit
  /\ headRef' = HeadParent
  /\ pc' = "DiffForFileWithRefs"
  /\ UNCHANGED << entry, filePath, spawned, err, fileDiff, parseVars,
                  validateVars >>

\* DiffForFile(filePath): DiffForFileWithRefs with the default refs
DiffForFile ==
  /\ pc = "DiffForFile"
  /\ baseRef' = HeadParent
  /\ headRef' = HeadCommit
  /\ pc' = "DiffForFileWithRefs"
  /\ UNCHANGED << entry, filePath, spawned, err, fileDiff, parseVars,
                  validateVars >>

\* return FileDiff{} and an error
ReturnError(e) ==
  /\ fileDiff' = EmptyFileDiff
  /\ err' = e
  /\ pc' = "done"

\* DiffForFileWithRefs: validate the file path
CheckFilePath ==
  /\ pc = "DiffForFileWithRefs"
  /\ IF ~ validateFilePath(filePath)
     THEN ReturnError("invalid file path")
     ELSE /\ pc' = "checkBaseRef"
          /\ UNCHANGED << fileDiff, err >>
  /\ UNCHANGED << entry, filePath, baseRef, headRef, spawned, parseVars,
                  validateVars >>

\* DiffForFileWithRefs: validate the base ref
CheckBaseRef ==
  /\ pc = "checkBaseRef"
  /\ IF ~ validateGitRef(baseRef)
     THEN ReturnError("invalid base ref")
     ELSE /\ pc' = "checkHeadRef"
          /\ UNCHANGED << fileDiff, err >>
  /\ UNCHANGED << entry, filePath, baseRef, headRef, spawned, parseVars,
                  validateVars >>

\* mutant: the head ref is not validated
CheckHeadRef_Skipped ==
  /\ pc = "checkHeadRef"
  /\ pc' = "git"
  /\ UNCHANGED << fileDiff, err >>
  /\ UNCHANGED << entry, filePath, baseRef, headRef, spawned, parseVars,
                  validateVars >>

\* DiffForFileWithRefs: validate the head ref
CheckHeadRef ==
  /\ pc = "checkHeadRef"
  /\ IF ~ validateGitRef(headRef)
     THEN ReturnError("invalid head ref")
     ELSE /\ pc' = "git"
          /\ UNCHANGED << fileDiff, err >>
  /\ UNCHANGED << entry, filePath, baseRef, headRef, spawned, parseVars,
                  validateVars >>

\* DiffForFileWithRefs: run git diff --unified=0 baseRef headRef filePath;
\* it fails, or it prints a text, which parseDiffContent then parses
RunGit ==
  /\ pc = "git"
  /\ spawned' = TRUE
  /\ \/ /\ ReturnError("git failed")
        /\ UNCHANGED diffContent
     \/ /\ diffContent' \in GitOutputs
        /\ pc' = "parseDiffContent"
        /\ UNCHANGED << fileDiff, err >>
  /\ UNCHANGED << entry, filePath, baseRef, headRef, lines, i,
                  currentRemovedLine, currentAddedLine, validateVars >>

\* a call DiffForFile(filePath) or DiffForFileWithRefs(filePath, baseRef,
\* headRef)
InitInvoke ==
  /\ \/ /\ pc = "DiffForFile"
        /\ baseRef = << >>
        /\ headRef = << >>
     \/ /\ pc = "DiffForFileWithRefs"
        /\ baseRef \in RefInputs
        /\ headRef \in RefInputs
  /\ entry = pc
  /\ filePath \in PathInputs
  /\ spawned = FALSE
  /\ err = "nil"
  /\ diffContent = << >>
  /\ lines = << >>
  /\ i = 0
  /\ currentRemovedLine = NoHunkYet
  /\ currentAddedLine = NoHunkYet
  /\ fileDiff = EmptyFileDiff
  /\ arg = << >>
  /\ pathOk = "unset"
  /\ refOk = "unset"

NextInvoke ==
  \/ DiffForFile
  \/ CheckFilePath
  \/ CheckBaseRef
  \/ CheckHeadRef
  \/ RunGit
  \/ ParseBegin
  \/ HunkHeaderLine
  \/ AddedLine
  \/ RemovedLine
  \/ OtherLine
  \/ ParseReturn

SpecInvoke == InitInvoke /\ [][NextInvoke]_vars

\* ------------------------------------------------------------------------
\* The validators applied to a string
\* ------------------------------------------------------------------------

\* a returned bool
Bool(b) == IF b THEN "true" ELSE "false"

CallValidateFilePath ==
  /\ pc = "validate"
  /\ pathOk = "unset"
  /\ pathOk' = Bool(validateFilePath(arg))
  /\ UNCHANGED << pc, arg, refOk, fileDiff, invokeVars, parseVars >>

CallValidateGitRef ==
  /\ pc = "validate"
  /\ refOk = "unset"
  /\ refOk' = Bool(validateGitRef(arg))
  /\ UNCHANGED << pc, arg, pathOk, fileDiff, invokeVars, parseVars >>

\* the validators are about to be called with any of the strings
InitValidate ==
  /\ pc = "validate"
  /\ entry = "validate"
  /\ arg \in ValidatorInputs
  /\ pathOk = "unset"
  /\ refOk = "unset"
  /\ filePath = << >>
  /\ baseRef = << >>
  /\ headRef = << >>
  /\ spawned = FALSE
  /\ err = "nil"
  /\ diffContent = << >>
  /\ lines = << >>
  /\ i = 0
  /\ currentRemovedLine = NoHunkYet
  /\ currentAddedLine = NoHunkYet
  /\ fileDiff = EmptyFileDiff

NextValidate ==
  \/ CallValidateFilePath
  \/ CallValidateGitRef

SpecValidate == InitValidate /\ [][NextValidate]_vars

\* ------------------------------------------------------------------------
\* Notions the properties are stated in
\* ------------------------------------------------------------------------

\* parseDiffContent is scanning, or has returned
Scanning == pc \in { "loop", "done" }

\* the line is a well-formed hunk header
WellFormed(line) == parseHunkHeader(line).isHunkHeader

\* the index of the last well-formed hunk header before line j, 0 for none
HunkBefore(j) ==
  IF \E h \in 1..(j - 1) : WellFormed(lines[h])
  THEN CHOOSE h \in 1..(j - 1) :
         /\ WellFormed(lines[h])
         /\ \A g \in (h + 1)..(j - 1) : ~ WellFormed(lines[g])
  ELSE 0

\* the index of the first well-formed hunk header before line j, j for none
FirstHunkBefore(j) ==
  IF \E h \in 1..(j - 1) : WellFormed(lines[h])
  THEN CHOOSE h \in 1..(j - 1) :
         /\ WellFormed(lines[h])
         /\ \A g \in 1..(h - 1) : ~ WellFormed(lines[g])
  ELSE j

AddedStart(h) == parseHunkHeader(lines[h]).addedStart

RemovedStart(h) == parseHunkHeader(lines[h]).removedStart

\* the count a header declares for a side: the group of the count, 1 when
\* the header omits it
DeclaredCount(group) == IF group = << >> THEN 1 ELSE DigitsValue(group)

AddedCount(h) == DeclaredCount(hunkHeaderRe(lines[h]).g4)

RemovedCount(h) == DeclaredCount(hunkHeaderRe(lines[h]).g2)

\* the line starts with the character c
StartsWith(line, c) == line # << >> /\ line[1] = c

\* the line starts with exactly one marker character c
SingleMarker(line, c) ==
  /\ StartsWith(line, c)
  /\ Len(line) = 1 \/ line[2] # c

\* the number of lines after line h, up to line j, that satisfy P
CountIn(h, j, P(_)) == Cardinality({ k \in (h + 1)..j : P(lines[k]) })

\* in a unified diff, the lines of a hunk that belong to the target version
\* of the file (unchanged and added) and to the source version (unchanged
\* and removed)
InTarget(line) == StartsWith(line, " ") \/ StartsWith(line, "+")

InSource(line) == StartsWith(line, " ") \/ StartsWith(line, "-")

\* the absolute line number, in the target and in the source version of the
\* file, of line j of the diff, which stands in the hunk of header h
TargetPos(h, j) == AddedStart(h) + CountIn(h, j - 1, InTarget)

SourcePos(h, j) == RemovedStart(h) + CountIn(h, j - 1, InSource)

IsAddedChange(line) == SingleMarker(line, "+")

IsRemovedChange(line) == SingleMarker(line, "-")

IsChange(line) == IsAddedChange(line) \/ IsRemovedChange(line)

\* this step records an added line, a removed line
RecordsAdded == Len(fileDiff'.AddedLines) > Len(fileDiff.AddedLines)

RecordsRemoved == Len(fileDiff'.RemovedLines) > Len(fileDiff.RemovedLines)

\* the DiffLine this step records
NewAdded == fileDiff'.AddedLines[Len(fileDiff'.AddedLines)]

NewRemoved == fileDiff'.RemovedLines[Len(fileDiff'.RemovedLines)]

\* ------------------------------------------------------------------------
\* Properties
\* ------------------------------------------------------------------------

\* C1: parseDiffContent records no added or removed line that occurs before
\* the first well-formed hunk header: as long as the scan has met no
\* well-formed header both sequences are empty (so they are empty at the
\* return when the text holds none), and at no time are there more recorded
\* lines than lines starting with the marker after the first header.
C1_NothingBeforeFirstHunk ==
  Scanning =>
    LET first == FirstHunkBefore(i)
    IN  /\ first = i =>
              fileDiff.AddedLines = << >> /\ fileDiff.RemovedLines = << >>
        /\ Len(fileDiff.AddedLines)
             <= Cardinality({ j \in (first + 1)..(i - 1) :
                                StartsWith(lines[j], "+") })
        /\ Len(fileDiff.RemovedLines)
             <= Cardinality({ j \in (first + 1)..(i - 1) :
                                StartsWith(lines[j], "-") })

\* C1 witness: the scan of a text without a well-formed hunk header that
\* holds an added and a removed line has returned
C1_Witness ==
  /\ pc = "done"
  /\ \A j \in 1..Len(lines) : ~ WellFormed(lines[j])
  /\ \E j \in 1..Len(lines) : IsAddedChange(lines[j])
  /\ \E j \in 1..Len(lines) : IsRemovedChange(lines[j])

\* C2 as claimed: the Line of every recorded DiffLine is the 1-based
\* absolute line number of that line in the target version (added) or the
\* source version (removed) of the file, and so at least 1.
C2_AbsoluteLineNumber ==
  [][ /\ RecordsAdded =>
           /\ NewAdded.Line = TargetPos(HunkBefore(i), i)
           /\ NewAdded.Line >= 1
      /\ RecordsRemoved =>
           /\ NewRemoved.Line = SourcePos(HunkBefore(i), i)
           /\ NewRemoved.Line >= 1 ]_vars

\* C2 as amended: the Line of every recorded DiffLine is at least 0, at
\* least 1 when the start value of its side in the header of its hunk is,
\* and it is the absolute line number in the target version (added) or the
\* source version (removed) when every line between the header of its hunk
\* and it is an added or removed line with a single marker.
C2_AbsoluteLineNumberZeroContext ==
  [][ LET h == HunkBefore(i)
          onlyChanges == \A k \in (h + 1)..(i - 1) : IsChange(lines[k])
      IN  /\ RecordsAdded =>
               /\ h > 0
               /\ NewAdded.Line >= 0
               /\ AddedStart(h) >= 1 => NewAdded.Line >= 1
               /\ onlyChanges => NewAdded.Line = TargetPos(h, i)
          /\ RecordsRemoved =>
               /\ h > 0
               /\ NewRemoved.Line >= 0
               /\ RemovedStart(h) >= 1 => NewRemoved.Line >= 1
               /\ onlyChanges => NewRemoved.Line = SourcePos(h, i) ]_vars

\* C2 witness: an added line that follows a removed line in its hunk has
\* been recorded with a line number that differs from the removed line's
C2_Witness ==
  /\ pc = "loop"
  /\ i = 4
  /\ WellFormed(lines[1])
  /\ IsRemovedChange(lines[2])
  /\ IsAddedChange(lines[3])
  /\ Len(fileDiff.AddedLines) = 1
  /\ Len(fileDiff.RemovedLines) = 1
  /\ fileDiff.AddedLines[1].Line # fileDiff.RemovedLines[1].Line

\* C3 as claimed: the Line of every recorded DiffLine is non-negative and
\* lies in the range start .. start + count - 1 that the header of its hunk
\* declares for its side.
C3_WithinDeclaredRange ==
  [][ LET h == HunkBefore(i)
      IN  /\ RecordsAdded =>
               /\ NewAdded.Line >= 0
               /\ NewAdded.Line >= AddedStart(h)
               /\ NewAdded.Line <= AddedStart(h) + AddedCount(h) - 1
          /\ RecordsRemoved =>
               /\ NewRemoved.Line >= 0
               /\ NewRemoved.Line >= RemovedStart(h)
               /\ NewRemoved.Line <= RemovedStart(h) + RemovedCount(h) - 1
    ]_vars

\* C3 as amended: the Line of every recorded DiffLine is non-negative and
\* not below the start value the header of its hunk declares for its side,
\* and it lies in the declared range start .. start + count - 1 when the
\* line is among the first count lines of its side in the hunk.
C3_WithinDeclaredRangeUpToCount ==
  [][ LET h == HunkBefore(i)
      IN  /\ RecordsAdded =>
               /\ NewAdded.Line >= 0
               /\ NewAdded.Line >= AddedStart(h)
               /\ CountIn(h, i, IsAddedChange) <= AddedCount(h) =>
                    NewAdded.Line <= AddedStart(h) + AddedCount(h) - 1
          /\ RecordsRemoved =>
               /\ NewRemoved.Line >= 0
               /\ NewRemoved.Line >= RemovedStart(h)
               /\ CountIn(h, i, IsRemovedChange) <= RemovedCount(h) =>
                    NewRemoved.Line <= RemovedStart(h) + RemovedCount(h) - 1
    ]_vars

\* C3 witness: the second added line of a hunk whose header declares at
\* least two added lines has been recorded
C3_Witness ==
  /\ pc = "loop"
  /\ i = 4
  /\ WellFormed(lines[1])
  /\ AddedCount(1) >= 2
  /\ IsAddedChange(lines[2])
  /\ IsAddedChange(lines[3])
  /\ Len(fileDiff.AddedLines) = 2

\* C4: after a well-formed hunk header with starts (r, a) the k-th added
\* line recorded in the hunk has Line = a + k - 1 and the k-th removed line
\* has Line = r + k - 1; recording a line of one side changes neither the
\* counter nor the sequence of the other side; a well-formed header sets
\* both counters to its own start values and records nothing; every step
\* keeps what was recorded before, in order; and a line recorded after
\* another one of its side in the same hunk has a greater Line.
C4_CountersPerHunk ==
  [][ LET h == HunkBefore(i)
          ka == CountIn(h, i, IsAddedChange)
          kr == CountIn(h, i, IsRemovedChange)
          oldAdded == fileDiff.AddedLines
          oldRemoved == fileDiff.RemovedLines
      IN  /\ RecordsAdded =>
               /\ fileDiff'.AddedLines = Append(oldAdded, NewAdded)
               /\ NewAdded.Line = AddedStart(h) + ka - 1
               /\ ka >= 2 => NewAdded.Line > oldAdded[Len(oldAdded)].Line
               /\ currentAddedLine' = currentAddedLine + 1
               /\ currentRemovedLine' = currentRemovedLine
               /\ fileDiff'.RemovedLines = oldRemoved
          /\ RecordsRemoved =>
               /\ fileDiff'.RemovedLines = Append(oldRemoved, NewRemoved)
               /\ NewRemoved.Line = RemovedStart(h) + kr - 1
               /\ kr >= 2 => NewRemoved.Line > oldRemoved[Len(oldRemoved)].Line
               /\ currentRemovedLine' = currentRemovedLine + 1
               /\ currentAddedLine' = currentAddedLine
               /\ fileDiff'.AddedLines = oldAdded
          /\ (AtLine /\ WellFormed(lines[i])) =>
               /\ currentAddedLine' = AddedStart(i)
               /\ currentRemovedLine' = RemovedStart(i)
               /\ fileDiff' = fileDiff
          /\ Len(fileDiff'.AddedLines) >= Len(oldAdded)
          /\ SubSeq(fileDiff'.AddedLines, 1, Len(oldAdded)) = oldAdded
          /\ Len(fileDiff'.RemovedLines) >= Len(oldRemoved)
          /\ SubSeq(fileDiff'.RemovedLines, 1, Len(oldRemoved)) = oldRemoved
    ]_vars

\* C4 witness: an added line and then a removed line of one hunk have been
\* recorded, each with the start value of its side, and each counter has
\* advanced by one
C4_Witness ==
  /\ pc = "loop"
  /\ i = 4
  /\ WellFormed(lines[1])
  /\ IsAddedChange(lines[2])
  /\ IsRemovedChange(lines[3])
  /\ Len(fileDiff.AddedLines) = 1
  /\ Len(fileDiff.RemovedLines) = 1
  /\ fileDiff.AddedLines[1].Line = AddedStart(1)
  /\ fileDiff.RemovedLines[1].Line = RemovedStart(1)
  /\ currentAddedLine = AddedStart(1) + 1
  /\ currentRemovedLine = RemovedStart(1) + 1

\* C5: DiffForFileWithRefs runs the git subprocess only when the file path,
\* the base ref and the head ref have all passed validation; it returns at
\* the first failure, in the order path, base ref, head ref, an empty
\* FileDiff and the error that names the invalid argument.
C5_ValidationBeforeGit ==
  LET pathValid == validateFilePath(filePath)
      baseValid == validateGitRef(baseRef)
      headValid == validateGitRef(headRef)
  IN  /\ (spawned \/ pc \in { "git", "parseDiffContent", "loop" }) =>
           pathValid /\ baseValid /\ headValid
      /\ pc = "done" =>
           /\ ~ pathValid =>
                err = "invalid file path" /\ ~ spawned
                  /\ fileDiff = EmptyFileDiff
           /\ (pathValid /\ ~ baseValid) =>
                err = "invalid base ref" /\ ~ spawned
                  /\ fileDiff = EmptyFileDiff
           /\ (pathValid /\ baseValid /\ ~ headValid) =>
                err = "invalid head ref" /\ ~ spawned
                  /\ fileDiff = EmptyFileDiff
           /\ (pathValid /\ baseValid /\ headValid) =>
                spawned /\ err \in { "nil", "git failed" }

\* C5 witness: a call with a valid path, a valid base ref and an invalid
\* head ref has returned without running git
C5_Witness ==
  /\ pc = "done"
  /\ validateFilePath(filePath)
  /\ validateGitRef(baseRef)
  /\ ~ validateGitRef(headRef)
  /\ err = "invalid head ref"
  /\ ~ spawned

\* the characters of the two denylists
DeniedChars ==
  { ";", "|", "&", "$", "BACKTICK", "(", ")", "{", "}", "[", "]", "*", "?",
    "<", ">", "'", "\"", " ", "\t", "\n", "\r" }

HasDeniedChar(s) == \E k \in 1..Len(s) : s[k] \in DeniedChars

\* C6: for every string that holds a shell metacharacter of the denylist or
\* a whitespace character, at any position, validateFilePath and
\* validateGitRef both return false.
C6_DenylistRejected ==
  HasDeniedChar(arg) => pathOk # "true" /\ refOk # "true"

\* C6 witness: both validators have rejected a string whose only denied
\* character is its last one
C6_Witness ==
  /\ Len(arg) = 2
  /\ arg[1] = "a"
  /\ arg[2] \in DeniedChars
  /\ pathOk = "false"
  /\ refOk = "false"

\* the string holds two dots in a row
HasDotDot(s) == \E k \in 1..(Len(s) - 1) : s[k] = "." /\ s[k + 1] = "."

\* the string starts or ends with a slash
SlashAtEnd(s) == s # << >> /\ (s[1] = "/" \/ s[Len(s)] = "/")

\* C7 as claimed: for every string that contains "..", validateFilePath and
\* validateGitRef both return false; for every string that starts or ends
\* with "/", validateGitRef returns false.
C7_DotDotRejected ==
  /\ HasDotDot(arg) => pathOk # "true" /\ refOk # "true"
  /\ SlashAtEnd(arg) => refOk # "true"

\* C7 as amended: for every string that contains "..", validateGitRef
\* returns false; validateFilePath returns false for every string whose
\* lexically cleaned form contains "..", which holds of every string whose
\* first path element is ".."; for every string that starts or ends with
\* "/", validateGitRef returns false.
C7_DotDotRejectedAfterClean ==
  /\ HasDotDot(arg) => refOk # "true"
  /\ HasDotDot(Clean(arg)) => pathOk # "true"
  /\ (arg = << ".", "." >> \/ HasPrefix(arg, << ".", ".", "/" >>)) =>
       HasDotDot(Clean(arg)) /\ pathOk # "true"
  /\ SlashAtEnd(arg) => refOk # "true"

\* C7 witness: both validators have rejected a path that climbs out of a
\* directory it entered, and further up
C7_Witness ==
  /\ arg = << "a", "/", ".", ".", "/", ".", "." >>
  /\ pathOk = "false"
  /\ refOk = "false"

\* C8: parseDiffContent is total: the scan passes every line once, in
\* order, and the call returns, without an error, after the last line.
C8_ParseTerminates ==
  /\ [][ AtLine => (i' = i + 1 /\ lines' = lines /\ err' = "nil") ]_vars
  /\ <>(pc = "done" /\ i = Len(lines) + 1 /\ err = "nil")

\* C8 witness: the scan of a text of three lines with a header-like line
\* that is not well-formed has returned
C8_Witness ==
  /\ pc = "done"
  /\ Len(lines) >= 3
  /\ i = Len(lines) + 1
  /\ \E j \in 1..Len(lines) :
       StartsWith(lines[j], "@") /\ ~ WellFormed(lines[j])

\* the line starts with two marker characters c
DoubleMarker(line, c) == Len(line) >= 2 /\ line[1] = c /\ line[2] = c

\* C9: a line that begins with two plus or two minus characters is never
\* recorded: the step of the scan at such a line leaves both sequences as
\* they are, also after a well-formed hunk header.
C9_DoubleMarkerNotRecorded ==
  [][ (AtLine /\ (DoubleMarker(lines[i], "+") \/ DoubleMarker(lines[i], "-")))
        => fileDiff' = fileDiff ]_vars

\* C9 witness: the scan has passed a +++ line and a --- line that follow a
\* well-formed hunk header, and has recorded nothing
C9_Witness ==
  /\ pc = "loop"
  /\ i = 4
  /\ WellFormed(lines[1])
  /\ DoubleMarker(lines[2], "+")
  /\ DoubleMarker(lines[3], "-")
  /\ currentAddedLine >= 0
  /\ currentRemovedLine >= 0
  /\ fileDiff = EmptyFileDiff

\* C10: once a well-formed hunk header was met, a line with exactly one
\* plus (minus) marker is recorded as an added (removed) line whose Content
\* is the whole text after the marker, the empty text for a bare marker,
\* and the counter of its side advances by one.
C10_ContentAfterMarker ==
  [][ (AtLine /\ HunkBefore(i) > 0) =>
        /\ IsAddedChange(lines[i]) =>
             /\ RecordsAdded
             /\ NewAdded.Content = Tail(lines[i])
             /\ currentAddedLine' = currentAddedLine + 1
        /\ IsRemovedChange(lines[i]) =>
             /\ RecordsRemoved
             /\ NewRemoved.Content = Tail(lines[i])
             /\ currentRemovedLine' = currentRemovedLine + 1 ]_vars

\* C10 witness: a bare plus line and then a plus line whose text starts
\* with a tab have been recorded, the first with empty Content
C10_Witness ==
  /\ pc = "loop"
  /\ i = 4
  /\ WellFormed(lines[1])
  /\ lines[2] = << "+" >>
  /\ lines[3] = << "+", "\t", "a", ";" >>
  /\ Len(fileDiff.AddedLines) = 2
  /\ fileDiff.AddedLines[1].Content = << >>
  /\ fileDiff.AddedLines[2].Content = << "\t", "a", ";" >>
  /\ fileDiff.AddedLines[2].Line = fileDiff.AddedLines[1].Line + 1

\* the line looks like a hunk header: it starts with @@
HeaderLike(line) == HasPrefix(line, << "@", "@" >>)

\* the digit string denotes a number that fits an int
FitsInt(ds) ==
  \/ Len(StripZeros(ds)) < Len(MaxIntDigits)
  \/ /\ Len(StripZeros(ds)) = Len(MaxIntDigits)
     /\ DigitsLeq(StripZeros(ds), MaxIntDigits)

\* the line looks like a hunk header and is not well-formed: it has not the
\* form  @@ -<digits>[,<digits>] +<digits>[,<digits>] @@ , or one of its
\* start values is too large for an int
MalformedHeader(line) ==
  /\ HeaderLike(line)
  /\ \/ ~ hunkHeaderRe(line).matched
     \/ ~ FitsInt(hunkHeaderRe(line).g1)
     \/ ~ FitsInt(hunkHeaderRe(line).g3)

\* C11: a line that looks like a hunk header and is not well-formed (start
\* values that are no numbers or are missing, or are too large for an int)
\* is no hunk header for parseHunkHeader; the step of the scan at such a
\* line changes neither counter, records nothing, raises no error and goes
\* on to the next line; and when every header-like line of the text is of
\* this kind, parseDiffContent returns two empty sequences.
C11_MalformedHeaderIgnored ==
  [][ /\ (AtLine /\ MalformedHeader(lines[i])) =>
           /\ ~ parseHunkHeader(lines[i]).isHunkHeader
           /\ currentAddedLine' = currentAddedLine
           /\ currentRemovedLine' = currentRemovedLine
           /\ fileDiff' = fileDiff
           /\ i' = i + 1
           /\ pc' = "loop"
           /\ err' = "nil"
      /\ ( /\ pc' = "done"
           /\ \A j \in 1..Len(lines) :
                HeaderLike(lines[j]) => MalformedHeader(lines[j]) ) =>
           fileDiff' = EmptyFileDiff ]_vars

\* C11 witness: the scan of a header whose added start value is too large
\* for an int, followed by an added and a removed line, has returned two
\* empty sequences
C11_Witness ==
  /\ pc = "done"
  /\ Len(lines) = 3
  /\ hunkHeaderRe(lines[1]).matched
  /\ FitsInt(hunkHeaderRe(lines[1]).g1)
  /\ ~ FitsInt(hunkHeaderRe(lines[1]).g3)
  /\ IsAddedChange(lines[2])
  /\ IsRemovedChange(lines[3])
  /\ fileDiff = EmptyFileDiff

\* line j follows a malformed header line, with no well-formed hunk header
\* between the two
AfterMalformed(j) ==
  \E m \in 1..(j - 1) :
    /\ MalformedHeader(lines[m])
    /\ \A g \in (m + 1)..(j - 1) : ~ WellFormed(lines[g])

\* C12 as claimed: the added and removed lines that follow a malformed
\* header line, up to the next well-formed hunk header, are not recorded,
\* also when a well-formed hunk header occurred earlier in the text.
C12_AfterMalformedUnrecorded ==
  [][ (AtLine /\ AfterMalformed(i)) => fileDiff' = fileDiff ]_vars

\* C12 as amended: the added and removed lines that follow a malformed
\* header line, up to the next well-formed hunk header, are not recorded
\* when no well-formed hunk header occurred earlier in the text; when one
\* did, they are recorded as lines of that earlier hunk, numbered on from
\* its start values as if the malformed line were not there.
C12_AfterMalformedKeepsContext ==
  [][ (AtLine /\ AfterMalformed(i)) =>
        LET h == HunkBefore(i)
        IN  /\ h = 0 => fileDiff' = fileDiff
            /\ (h > 0 /\ IsAddedChange(lines[i])) =>
                 /\ RecordsAdded
                 /\ NewAdded.Line = AddedStart(h)
                                      + CountIn(h, i, IsAddedChange) - 1
            /\ (h > 0 /\ IsRemovedChange(lines[i])) =>
                 /\ RecordsRemoved
                 /\ NewRemoved.Line = RemovedStart(h)
                                        + CountIn(h, i, IsRemovedChange) - 1
    ]_vars

\* C12 witness: an added line that follows a malformed header line, which
\* follows a well-formed hunk header, has been recorded with the start value
\* of that header
C12_Witness ==
  /\ pc = "loop"
  /\ i = 4
  /\ WellFormed(lines[1])
  /\ MalformedHeader(lines[2])
  /\ IsAddedChange(lines[3])
  /\ Len(fileDiff.AddedLines) = 1
  /\ fileDiff.AddedLines[1].Line = AddedStart(1)
  /\ currentAddedLine = AddedStart(1) + 1

\* the line is neither a well-formed hunk header nor an added nor a removed
\* line
IsOtherLine(line) ==
  /\ ~ WellFormed(line)
  /\ ~ IsAddedChange(line)
  /\ ~ IsRemovedChange(line)

\* C13: the step of the scan at a line that is neither a well-formed hunk
\* header nor an added nor a removed line (a context line, a blank line, a
\* file-header line, anything else) changes neither counter and records
\* nothing; so the first added (removed) line after a hunk header is
\* recorded with the added (removed) start value of the header, however
\* many such lines stand between the two.
C13_OtherLinesChangeNothing ==
  [][ /\ (AtLine /\ IsOtherLine(lines[i])) =>
           /\ currentAddedLine' = currentAddedLine
           /\ currentRemovedLine' = currentRemovedLine
           /\ fileDiff' = fileDiff
      /\ LET h == HunkBefore(i)
         IN  /\ ( /\ AtLine
                  /\ h > 0
                  /\ IsAddedChange(lines[i])
                  /\ CountIn(h, i, IsAddedChange) = 1 ) =>
                  RecordsAdded /\ NewAdded.Line = AddedStart(h)
             /\ ( /\ AtLine
                  /\ h > 0
                  /\ IsRemovedChange(lines[i])
                  /\ CountIn(h, i, IsRemovedChange) = 1 ) =>
                  RecordsRemoved /\ NewRemoved.Line = RemovedStart(h) ]_vars

\* C13 witness: the scan of a hunk header, two context lines, a removed
\* line and an added line has recorded both lines with the start values of
\* the header
C13_Witness ==
  /\ pc = "loop"
  /\ i = 6
  /\ WellFormed(lines[1])
  /\ StartsWith(lines[2], " ")
  /\ StartsWith(lines[3], " ")
  /\ IsRemovedChange(lines[4])
  /\ IsAddedChange(lines[5])
  /\ Len(fileDiff.RemovedLines) = 1
  /\ Len(fileDiff.AddedLines) = 1
  /\ fileDiff.RemovedLines[1].Line = RemovedStart(1)
  /\ fileDiff.AddedLines[1].Line = AddedStart(1)
  /\ currentRemovedLine = RemovedStart(1) + 1
  /\ currentAddedLine = AddedStart(1) + 1

\* the ASCII control characters among the characters of the model: code
\* points 9, 10, 12, 13 and 127
ControlChars == { "\t", "\n", "\f", "\r", "DEL" }

HasControlChar(s) == \E k \in 1..Len(s) : s[k] \in ControlChars

\* the string holds two slashes in a row
HasDoubleSlash(s) == \E k \in 1..(Len(s) - 1) : s[k] = "/" /\ s[k + 1] = "/"

\* C14: validateGitRef returns true exactly when the ref is not empty, holds
\* no shell metacharacter of the denylist, no whitespace character, no "..",
\* no "//" and no ASCII control character, and neither starts nor ends with
\* "/"; it accepts feature/new-thing and rejects main/.
C14_RefAcceptedExactly ==
  /\ refOk # "unset" =>
       ( refOk = "true" <=>
           /\ arg # << >>
           /\ ~ HasDeniedChar(arg)
           /\ ~ HasDotDot(arg)
           /\ ~ HasDoubleSlash(arg)
           /\ ~ HasControlChar(arg)
           /\ ~ SlashAtEnd(arg) )
  /\ ( /\ refOk # "unset"
       /\ arg = << "f", "e", "a", "t", "u", "r", "e", "/",
                   "n", "e", "w", "-", "t", "h", "i", "n", "g" >> ) =>
       refOk = "true"
  /\ (refOk # "unset" /\ arg = << "m", "a", "i", "n", "/" >>) =>
       refOk = "false"

\* C14 witness: validateGitRef has accepted feature/new-thing
C14_Witness ==
  /\ arg = << "f", "e", "a", "t", "u", "r", "e", "/",
              "n", "e", "w", "-", "t", "h", "i", "n", "g" >>
  /\ refOk = "true"

\* C15: DiffForFile(filePath) is DiffForFileWithRefs(filePath, "HEAD^",
\* "HEAD"): its one step of its own enters DiffForFileWithRefs with these
\* refs and the same path, in the state of a call made directly; both refs
\* then pass their validation, so a call of DiffForFile never returns an
\* invalid-base-ref or invalid-head-ref error: it returns the invalid-file-
\* path error exactly when validateFilePath rejects the path, and otherwise
\* runs git and returns its failure or the parsed diff.
C15_DiffForFileDefaultRefs ==
  [][ /\ pc = "DiffForFile" =>
           /\ pc' = "DiffForFileWithRefs"
           /\ filePath' = filePath
           /\ baseRef' = HeadParent
           /\ headRef' = HeadCommit
           /\ ~ spawned' /\ err' = "nil" /\ fileDiff' = EmptyFileDiff
           /\ diffContent' = << >> /\ lines' = << >> /\ i' = 0
           /\ currentRemovedLine' = NoHunkYet
           /\ currentAddedLine' = NoHunkYet
      /\ (entry = "DiffForFile" /\ pc = "checkBaseRef") =>
           pc' = "checkHeadRef"
      /\ (entry = "DiffForFile" /\ pc = "checkHeadRef") => pc' = "git"
      /\ (entry = "DiffForFile" /\ pc' = "done") =>
           /\ err' \in { "nil", "invalid file path", "git failed" }
           /\ err' = "invalid file path" <=> ~ validateFilePath(filePath)
           /\ err' # "invalid file path" => spawned' ]_vars

\* C15 witness: a call of DiffForFile has returned, without an error, a diff
\* with an added line
C15_Witness ==
  /\ entry = "DiffForFile"
  /\ pc = "done"
  /\ baseRef = HeadParent
  /\ headRef = HeadCommit
  /\ spawned
  /\ err = "nil"
  /\ fileDiff.AddedLines # << >>

====
